---- MODULE Spec2Model ----
(***************************************************************************)
(* A model of torch/fx/immutable_collections.py (the immutable container   *)
(* factory and its pytree registration) and of the user-list rules of      *)
(* .github/scripts/runner_determinator.py.                                 *)
(*                                                                         *)
(* Python values are represented as follows.                               *)
(*   - a list or tuple is a sequence;                                      *)
(*   - a dict is the sequence of its <<key, value>> items in insertion     *)
(*     order, keys unique;                                                 *)
(*   - an instance is a record [cls |-> class name, data |-> contents];    *)
(*   - a str of the runner determinator is a sequence of symbols, each a   *)
(*     single character or an indivisible name (a user or a feature);      *)
(*   - a 64-bit machine word (a hash) is a sequence of 8 bytes, least      *)
(*     significant first.                                                  *)
(***************************************************************************)
EXTENDS Integers, Sequences, FiniteSets, TLC

\* ---------------------------------------------------------------- bounds

\* Longest list, and most items of a dict, an instance is constructed from.
MaxLen == 2
\* Longest iterable handed to a call as an argument.
MaxArgLen == 1
\* Element values and dict values are 1..MaxVal, dict keys are 1..MaxKey.
MaxVal == 2
MaxKey == 2
\* Most lines of the user list (the first comment of the issue).
MaxLines == 2

Vals == 1..MaxVal
Keys == 1..MaxKey
Items == Keys \X Vals

None == "None"

Min(a, b) == IF a < b THEN a ELSE b

\* All sequences over S of length at most n.
SeqsUpTo(S, n) == UNION {[1..k -> S] : k \in 0..n}

\* ------------------------------------------------- 64-bit word arithmetic

\* The word of a non-negative integer below 2^31.
RECURSIVE ToBytes(_, _)
ToBytes(x, n) == IF n = 0 THEN <<>> ELSE <<x % 256>> \o ToBytes(x \div 256, n - 1)

Word(x) == ToBytes(x, 8)

\* Carry propagation: turns a sequence of 8 column sums into 8 bytes (mod 2^64).
RECURSIVE Carry(_, _, _)
CarryStep(cols, i, t) == <<t % 256>> \o Carry(cols, i + 1, t \div 256)
Carry(cols, i, carry) == IF i > 8 THEN <<>> ELSE CarryStep(cols, i, cols[i] + carry)

Add64(a, b) == Carry([i \in 1..8 |-> a[i] + b[i]], 1, 0)

RECURSIVE ColSum(_, _, _, _)
ColSum(a, b, k, i) ==
    IF i > k THEN 0 ELSE a[i] * b[k + 1 - i] + ColSum(a, b, k, i + 1)

Mul64(a, b) == Carry([k \in 1..8 |-> ColSum(a, b, k, 1)], 1, 0)

\* x rotated left by 31 bits: left by 32 (four bytes), then right by one bit.
Rotl32(a) == [i \in 1..8 |-> a[((i + 3) % 8) + 1]]
Rotr1(a) == [i \in 1..8 |-> (a[i] \div 2) + (a[(i % 8) + 1] % 2) * 128]
Rotl31(a) == Rotr1(Rotl32(a))

RECURSIVE XorByte(_, _, _)
XorByte(x, y, n) ==
    IF n = 0 THEN 0
    ELSE ((x + y) % 2) + 2 * XorByte(x \div 2, y \div 2, n - 1)

Xor64(a, b) == [i \in 1..8 |-> XorByte(a[i], b[i], 8)]

\* ------------------------------------------------- hash() of the builtins

_PyHASH_XXPRIME_1 == <<135, 202, 235, 133, 177, 121, 55, 158>>
_PyHASH_XXPRIME_2 == <<79, 235, 212, 39, 61, 174, 178, 194>>
_PyHASH_XXPRIME_5 == <<197, 103, 86, 22, 47, 235, 212, 39>>
\* _PyHASH_XXPRIME_5 ^ 3527539
_PyHASH_LENMIX == <<182, 180, 99, 22, 47, 235, 212, 39>>
MinusOne == [i \in 1..8 |-> 255]

\* hash(tuple): lanes are the hashes of the tuple's items, in order.
RECURSIVE TupleHashAcc(_, _, _)
TupleHashAcc(lanes, i, acc) ==
    IF i > Len(lanes) THEN acc
    ELSE TupleHashAcc(lanes, i + 1,
            Mul64(Rotl31(Add64(acc, Mul64(lanes[i], _PyHASH_XXPRIME_2))),
                  _PyHASH_XXPRIME_1))

MinusOneTo(acc) == IF acc = MinusOne THEN Word(1546275796) ELSE acc

TupleHash(lanes) ==
    MinusOneTo(Add64(TupleHashAcc(lanes, 1, _PyHASH_XXPRIME_5),
                     Xor64(Word(Len(lanes)), _PyHASH_LENMIX)))

\* hash(int) of a small non-negative int is the int itself.
IntHash(x) == Word(x)

\* hash(t) of a tuple of ints, and of a tuple of (int, int) tuples.
IntTupleHash(t) == TupleHash([i \in 1..Len(t) |-> IntHash(t[i])])
ItemTupleHash(t) == TupleHash([i \in 1..Len(t) |-> IntTupleHash(t[i])])

\* The same hashes, computed once for the tuples of the model's instances.
IntTupleHashes == {<<t, IntTupleHash(t)>> : t \in SeqsUpTo(Vals, MaxLen)}
ItemTupleHashes ==
    {<<t, ItemTupleHash(t)>> :
        t \in {u \in SeqsUpTo(Items, Min(MaxLen, MaxKey)) :
                 \A i, j \in 1..Len(u) : u[i][1] = u[j][1] => i = j}}

HashOfIntTuple(t) ==
    IF \E p \in IntTupleHashes : p[1] = t
    THEN (CHOOSE p \in IntTupleHashes : p[1] = t)[2]
    ELSE IntTupleHash(t)

HashOfItemTuple(t) ==
    IF \E p \in ItemTupleHashes : p[1] = t
    THEN (CHOOSE p \in ItemTupleHashes : p[1] = t)[2]
    ELSE ItemTupleHash(t)

\* ------------------------------------------------------ builtin list, dict

NoExc == [type |-> None, msg |-> <<>>]
Raise(type) == [type |-> type, msg |-> <<>>]

\* What a call leaves behind: the receiver, the value returned, the exception.
Outcome(self, ret, exc) == [self |-> self, ret |-> ret, exc |-> exc]

WithData(self, data) == [self EXCEPT !.data = data]

Reverse(s) == [i \in 1..Len(s) |-> s[Len(s) + 1 - i]]
DelAt(s, i) == SubSeq(s, 1, i - 1) \o SubSeq(s, i + 1, Len(s))
InsAt(s, i, x) == SubSeq(s, 1, i - 1) \o <<x>> \o SubSeq(s, i, Len(s))
RECURSIVE Repeat(_, _)
Repeat(s, n) == IF n <= 0 THEN <<>> ELSE s \o Repeat(s, n - 1)
FirstAt(s, x) == CHOOSE i \in 1..Len(s) : s[i] = x /\ \A j \in 1..(i - 1) : s[j] # x

\* The methods of the builtin list the model calls; indices are Python's (from 0).
list_method(name, self, args) ==
    LET d == self.data
        n == Len(d)
    IN CASE name = "__init__" ->
              Outcome(WithData(self, IF args = <<>> THEN <<>> ELSE args[1]), None, NoExc)
         [] name = "append" -> Outcome(WithData(self, Append(d, args[1])), None, NoExc)
         [] name = "clear" -> Outcome(WithData(self, <<>>), None, NoExc)
         [] name = "extend" -> Outcome(WithData(self, d \o args[1]), None, NoExc)
         [] name = "__iadd__" -> Outcome(WithData(self, d \o args[1]), "self", NoExc)
         [] name = "__imul__" -> Outcome(WithData(self, Repeat(d, args[1])), "self", NoExc)
         [] name = "insert" ->
              Outcome(WithData(self, InsAt(d, Min(args[1], n) + 1, args[2])), None, NoExc)
         [] name = "pop" ->
              IF n = 0 THEN Outcome(self, None, Raise("IndexError"))
              ELSE Outcome(WithData(self, SubSeq(d, 1, n - 1)), d[n], NoExc)
         [] name = "remove" ->
              IF \E i \in 1..n : d[i] = args[1]
              THEN Outcome(WithData(self, DelAt(d, FirstAt(d, args[1]))), None, NoExc)
              ELSE Outcome(self, None, Raise("ValueError"))
         [] name = "reverse" -> Outcome(WithData(self, Reverse(d)), None, NoExc)
         [] name = "sort" ->
              Outcome(WithData(self, SortSeq(d, LAMBDA x, y : x < y)), None, NoExc)
         [] name = "__delitem__" ->
              IF args[1] < n THEN Outcome(WithData(self, DelAt(d, args[1] + 1)), None, NoExc)
              ELSE Outcome(self, None, Raise("IndexError"))
         [] name = "__setitem__" ->
              IF args[1] < n
              THEN Outcome(WithData(self, [d EXCEPT ![args[1] + 1] = args[2]]), None, NoExc)
              ELSE Outcome(self, None, Raise("IndexError"))
         [] name = "__len__" -> Outcome(self, n, NoExc)
         [] name = "__getitem__" ->
              IF args[1] < n THEN Outcome(self, d[args[1] + 1], NoExc)
              ELSE Outcome(self, None, Raise("IndexError"))
         [] name = "__contains__" -> Outcome(self, \E i \in 1..n : d[i] = args[1], NoExc)
         [] name = "__eq__" ->
              Outcome(self, args[1].cls \in {"list", "immutable_list"} /\ args[1].data = d,
                      NoExc)
         [] name = "__hash__" -> Outcome(self, None, Raise("TypeError"))
         [] name = "__reduce__" -> Outcome(self, <<"copyreg", <<self.cls>>>>, NoExc)

DictKeys(d) == [i \in 1..Len(d) |-> d[i][1]]
DictValues(d) == [i \in 1..Len(d) |-> d[i][2]]
HasKey(d, k) == \E i \in 1..Len(d) : d[i][1] = k
PosOf(d, k) == CHOOSE i \in 1..Len(d) : d[i][1] = k
\* d[k] = v: an existing key keeps its place, a new key goes last.
DictSet(d, k, v) ==
    IF HasKey(d, k) THEN [d EXCEPT ![PosOf(d, k)] = <<k, v>>] ELSE Append(d, <<k, v>>)
\* d.update(pairs), pairs in order.
RECURSIVE DictUpdate(_, _)
DictUpdate(d, pairs) ==
    IF pairs = <<>> THEN d
    ELSE DictUpdate(DictSet(d, pairs[1][1], pairs[1][2]), Tail(pairs))
\* zip(a, b) stops at the shorter argument.
Zip(a, b) == [i \in 1..Min(Len(a), Len(b)) |-> <<a[i], b[i]>>]
\* The set of items of a dict: what dict.__eq__ compares.
ItemSet(d) == {d[i] : i \in 1..Len(d)}

\* The methods of the builtin dict the model calls.
dict_method(name, self, args) ==
    LET d == self.data
        n == Len(d)
    IN CASE name = "__init__" ->
              Outcome(WithData(self, IF args = <<>> THEN d ELSE DictUpdate(d, args[1])),
                      None, NoExc)
         [] name = "update" -> Outcome(WithData(self, DictUpdate(d, args[1])), None, NoExc)
         [] name = "__ior__" -> Outcome(WithData(self, DictUpdate(d, args[1])), "self", NoExc)
         [] name = "__setitem__" ->
              Outcome(WithData(self, DictSet(d, args[1], args[2])), None, NoExc)
         [] name = "__delitem__" ->
              IF HasKey(d, args[1])
              THEN Outcome(WithData(self, DelAt(d, PosOf(d, args[1]))), None, NoExc)
              ELSE Outcome(self, None, Raise("KeyError"))
         [] name = "clear" -> Outcome(WithData(self, <<>>), None, NoExc)
         [] name = "pop" ->
              IF HasKey(d, args[1])
              THEN Outcome(WithData(self, DelAt(d, PosOf(d, args[1]))),
                           d[PosOf(d, args[1])][2], NoExc)
              ELSE Outcome(self, None, Raise("KeyError"))
         [] name = "popitem" ->
              IF n = 0 THEN Outcome(self, None, Raise("KeyError"))
              ELSE Outcome(WithData(self, SubSeq(d, 1, n - 1)), d[n], NoExc)
         [] name = "setdefault" ->
              IF HasKey(d, args[1]) THEN Outcome(self, d[PosOf(d, args[1])][2], NoExc)
              ELSE Outcome(WithData(self, Append(d, <<args[1], args[2]>>)), args[2], NoExc)
         [] name = "__len__" -> Outcome(self, n, NoExc)
         [] name = "__getitem__" ->
              IF HasKey(d, args[1]) THEN Outcome(self, d[PosOf(d, args[1])][2], NoExc)
              ELSE Outcome(self, None, Raise("KeyError"))
         [] name = "__contains__" -> Outcome(self, HasKey(d, args[1]), NoExc)
         [] name = "__eq__" ->
              Outcome(self, args[1].cls \in {"dict", "immutable_dict"}
                            /\ ItemSet(args[1].data) = ItemSet(d), NoExc)
         [] name = "__hash__" -> Outcome(self, None, Raise("TypeError"))
         [] name = "__reduce__" -> Outcome(self, <<"copyreg", <<self.cls>>>>, NoExc)

\* ------------------------------------------------------ the class factory

IsListKind(cls) == cls \in {"list", "immutable_list"}

_help_mutation ==
    <<"If you are attempting to modify the kwargs or args of a torch.fx.Node object,",
      "instead create a new copy of it and assign the copy to the node:",
      "    new_args = ... # copy and mutate args",
      "    node.args = new_args">>

\* Variant of _no_mutation below that names the base kind, not type(self).
_no_mutation_base_name(self, args) ==
    Outcome(self, None,
            [type |-> "NotImplementedError",
             msg |-> <<"'", IF IsListKind(self.cls) THEN "list" ELSE "dict",
                       "' object does not support mutation. ">>
                     \o _help_mutation])

\* raise NotImplementedError(f"..."): the f-string as the sequence of its parts.
_no_mutation(self, args) ==
    Outcome(self, None,
            [type |-> "NotImplementedError",
             msg |-> <<"'", self.cls, "' object does not support mutation. ">>
                     \o _help_mutation])

\* Variant of _create_immutable_container_class below that blocks the mutable
\* functions only when it is given no namespace.
_create_immutable_container_class_keeps_namespace(base, mutable_functions, namespace) ==
    [name |-> "immutable_" \o base,
     base |-> base,
     namespace |-> IF DOMAIN namespace # {} THEN namespace
                   ELSE [m \in mutable_functions |-> "_no_mutation"]]

\* type("immutable_" + base.__name__, (base,), namespace), after
\* namespace.update((method, _no_mutation) for method in mutable_functions).
_create_immutable_container_class(base, mutable_functions, namespace) ==
    [name |-> "immutable_" \o base,
     base |-> base,
     namespace |-> [m \in (DOMAIN namespace) \cup mutable_functions |->
                      IF m \in mutable_functions THEN "_no_mutation" ELSE namespace[m]]]

immutable_list ==
    _create_immutable_container_class(
        "list",
        {"__delitem__", "__iadd__", "__imul__", "__setitem__", "append", "clear",
         "extend", "insert", "pop", "remove", "reverse", "sort"},
        [__hash__ |-> "immutable_list.__hash__",
         __reduce__ |-> "immutable_list.__reduce__"])

immutable_dict ==
    _create_immutable_container_class(
        "dict",
        {"__delitem__", "__ior__", "__setitem__", "clear", "pop", "popitem",
         "setdefault", "update"},
        [__hash__ |-> "immutable_dict.__hash__",
         __reduce__ |-> "immutable_dict.__reduce__"])

\* The classes by name; a builtin has an empty namespace here and no base.
ClassOf(name) ==
    CASE name = immutable_list.name -> immutable_list
      [] name = immutable_dict.name -> immutable_dict
      [] OTHER -> [name |-> name, base |-> None, namespace |-> [m \in {} |-> None]]

\* Attribute lookup along the classes of an instance: the class's own namespace
\* first, then its base.
RECURSIVE Resolve(_, _)
Resolve(cls, method) ==
    LET k == ClassOf(cls)
    IN  IF method \in DOMAIN k.namespace THEN k.namespace[method]
        ELSE IF k.base # None THEN Resolve(k.base, method)
        ELSE cls \o "." \o method

\* lambda self: hash(tuple(self))
immutable_list___hash__(self) == HashOfIntTuple(self.data)

\* Variant of immutable_list___reduce__ below that names the base class.
immutable_list___reduce___base(self) == <<"list", <<self.data>>>>

\* lambda self: (type(self), (tuple(self),))
immutable_list___reduce__(self) == <<self.cls, <<self.data>>>>

\* lambda self: hash(tuple(self.items()))
immutable_dict___hash__(self) == HashOfItemTuple(self.data)

\* lambda self: (type(self), (tuple(self.items()),))
immutable_dict___reduce__(self) == <<self.cls, <<self.data>>>>

\* self.method(*args)
Invoke(self, method, args) ==
    LET f == Resolve(self.cls, method)
    IN CASE f = "_no_mutation" -> _no_mutation(self, args)
         [] f = "immutable_list.__hash__" -> Outcome(self, immutable_list___hash__(self), NoExc)
         [] f = "immutable_list.__reduce__" ->
              Outcome(self, immutable_list___reduce__(self), NoExc)
         [] f = "immutable_dict.__hash__" -> Outcome(self, immutable_dict___hash__(self), NoExc)
         [] f = "immutable_dict.__reduce__" ->
              Outcome(self, immutable_dict___reduce__(self), NoExc)
         [] f = "list." \o method -> list_method(method, self, args)
         [] f = "dict." \o method -> dict_method(method, self, args)

\* cls(arg): a new, empty instance of cls, initialised by its __init__.
Construct(cls, args) ==
    LET out == Invoke([cls |-> cls, data |-> <<>>], "__init__", args)
    IN  Outcome(out.self, IF out.exc = NoExc THEN out.self ELSE None, out.exc)


\* -------------------------------------------- torch.utils._pytree helpers

\* Keypath tokens.
SequenceKey(idx) == [kind |-> "SequenceKey", key |-> idx]
MappingKey(key) == [kind |-> "MappingKey", key |-> key]

\* Children are the elements in order; the context is empty.
_list_flatten(d) == <<d.data, None>>
_list_flatten_with_keys(d) ==
    LET fl == _list_flatten(d)
    IN  <<[i \in 1..Len(fl[1]) |-> <<SequenceKey(i - 1), fl[1][i]>>], fl[2]>>
\* A plain list of the values.
_list_unflatten(values, context) == [cls |-> "list", data |-> values]

\* Children are the values, the context the keys, both in the dict's order.
_dict_flatten(d) == <<DictValues(d.data), DictKeys(d.data)>>
_dict_flatten_with_keys(d) ==
    LET fl == _dict_flatten(d)
    IN  <<[i \in 1..Len(fl[1]) |-> <<MappingKey(fl[2][i]), fl[1][i]>>], fl[2]>>
\* A plain dict: dict(zip(context, values)).
_dict_unflatten(values, context) ==
    [cls |-> "dict", data |-> DictUpdate(<<>>, Zip(context, values))]

\* The registry after one more registration.
register_pytree_node(registry, cls, flatten_fn, unflatten_fn, serialized_type_name, flatten_with_keys_fn) ==
    [t \in (DOMAIN registry) \cup {cls} |->
       IF t = cls
       THEN [flatten_fn |-> flatten_fn, unflatten_fn |-> unflatten_fn,
             serialized_type_name |-> serialized_type_name,
             flatten_with_keys_fn |-> flatten_with_keys_fn]
       ELSE registry[t]]

\* ------------------------------------------------ the registered callables

\* The argument of a constructor call that copies a list or the items of a dict.
Contents(x) == x.data

_immutable_list_flatten(d) == _list_flatten(d)

_immutable_list_unflatten(values, context) ==
    Construct(immutable_list.name, <<Contents(_list_unflatten(values, context))>>).ret

\* Variant of _immutable_dict_flatten below that flattens in the order of the keys.
_immutable_dict_flatten_by_key(d) ==
    _dict_flatten(WithData(d, SortSeq(d.data, LAMBDA a, b : a[1] < b[1])))

_immutable_dict_flatten(d) == _dict_flatten(d)

\* Variants of _immutable_dict_unflatten below: one passes its arguments in the
\* wrong order, one returns the plain dict.
_immutable_dict_unflatten_swapped(values, context) ==
    Construct(immutable_dict.name, <<Contents(_dict_unflatten(context, values))>>).ret

_immutable_dict_unflatten_plain(values, context) == _dict_unflatten(values, context)

_immutable_dict_unflatten(values, context) ==
    Construct(immutable_dict.name, <<Contents(_dict_unflatten(values, context))>>).ret

\* The registry once the module is imported.
SUPPORTED_NODES ==
    register_pytree_node(
        register_pytree_node(
            [t \in {} |-> None],
            immutable_list.name,
            "_immutable_list_flatten",
            "_immutable_list_unflatten",
            "torch.fx.immutable_collections.immutable_list",
            "_list_flatten_with_keys"),
        immutable_dict.name,
        "_immutable_dict_flatten",
        "_immutable_dict_unflatten",
        "torch.fx.immutable_collections.immutable_dict",
        "_dict_flatten_with_keys")

\* A registered callable, called by its name.
CallFlatten(fn, d) ==
    CASE fn = "_immutable_list_flatten" -> _immutable_list_flatten(d)
      [] fn = "_immutable_dict_flatten" -> _immutable_dict_flatten(d)
      [] fn = "_list_flatten_with_keys" -> _list_flatten_with_keys(d)
      [] fn = "_dict_flatten_with_keys" -> _dict_flatten_with_keys(d)

CallUnflatten(fn, values, context) ==
    CASE fn = "_immutable_list_unflatten" -> _immutable_list_unflatten(values, context)
      [] fn = "_immutable_dict_unflatten" -> _immutable_dict_unflatten(values, context)

\* ------------------------------------------------- runner determinator

WORKFLOW_LABEL_META == <<>>
WORKFLOW_LABEL_LF == <<"lf.">>
RUNNER_AMI_LEGACY == <<>>
RUNNER_AMI_AMZ2023 == <<"amz2023">>

Whitespace == {" ", "\n", "\t"}

\* str.lstrip(chars), str.rstrip(chars), str.strip(chars)
RECURSIVE LStrip(_, _)
LStrip(s, chars) ==
    IF s # <<>> /\ Head(s) \in chars THEN LStrip(Tail(s), chars) ELSE s
RECURSIVE RStrip(_, _)
RStrip(s, chars) ==
    IF s # <<>> /\ s[Len(s)] \in chars THEN RStrip(SubSeq(s, 1, Len(s) - 1), chars) ELSE s
Strip(s, chars) == RStrip(LStrip(s, chars), chars)

\* str.split(sep): the pieces between separators, empty pieces kept.
RECURSIVE SplitSep(_, _, _)
SplitSep(s, sep, piece) ==
    IF s = <<>> THEN <<piece>>
    ELSE IF Head(s) = sep THEN <<piece>> \o SplitSep(Tail(s), sep, <<>>)
    ELSE SplitSep(Tail(s), sep, Append(piece, Head(s)))
Split(s, sep) == SplitSep(s, sep, <<>>)

\* str.split(): the pieces between runs of whitespace, no empty piece.
SplitWhitespace(s) ==
    LET pieces == Split([i \in 1..Len(s) |-> IF s[i] \in Whitespace THEN " " ELSE s[i]], " ")
    IN  SelectSeq(pieces, LAMBDA x : x # <<>>)

Range(s) == {s[i] : i \in 1..Len(s)}

\* What a try block comes to: the value returned, or an exception raised.
Returned(value) == [raised |-> FALSE, value |-> value]
Raised == [raised |-> TRUE, value |-> <<>>]

\* Variant of workflow_type_of below with no branch for "*".
workflow_type_of_no_star(issue, workflow_requestors) ==
    IF issue.comments = <<>> THEN Raised
    ELSE LET first_comment == Strip(issue.comments[1], {"\n", "\t", " "})
         IN  IF first_comment = <<>> THEN Raised
             ELSE IF first_comment[1] = "!" THEN Returned(WORKFLOW_LABEL_META)
             ELSE LET all_opted_in_users ==
                          {Split(Strip(usr_raw, {"\n", "\t", "@", " "}), ",")[1] :
                             usr_raw \in Range(SplitWhitespace(first_comment))}
                      opted_in_requestors ==
                          {usr \in Range(workflow_requestors) : usr \in all_opted_in_users}
                  IN  IF opted_in_requestors # {} THEN Returned(WORKFLOW_LABEL_LF)
                      ELSE Returned(WORKFLOW_LABEL_META)

\* The try block of get_workflow_type: [0] raises IndexError on an issue with no
\* comment and on an empty first comment.
workflow_type_of(issue, workflow_requestors) ==
    IF issue.comments = <<>> THEN Raised
    ELSE LET first_comment == Strip(issue.comments[1], {"\n", "\t", " "})
         IN  IF first_comment = <<>> THEN Raised
             ELSE IF first_comment[1] = "!" THEN Returned(WORKFLOW_LABEL_META)
             ELSE IF first_comment[1] = "*" THEN Returned(WORKFLOW_LABEL_LF)
             ELSE LET all_opted_in_users ==
                          {Split(Strip(usr_raw, {"\n", "\t", "@", " "}), ",")[1] :
                             usr_raw \in Range(SplitWhitespace(first_comment))}
                      opted_in_requestors ==
                          {usr \in Range(workflow_requestors) : usr \in all_opted_in_users}
                  IN  IF opted_in_requestors # {} THEN Returned(WORKFLOW_LABEL_LF)
                      ELSE Returned(WORKFLOW_LABEL_META)

\* except Exception: fall back to the meta runners.
get_workflow_type(issue, workflow_requestors) ==
    IF workflow_type_of(issue, workflow_requestors).raised
    THEN WORKFLOW_LABEL_META
    ELSE workflow_type_of(issue, workflow_requestors).value

\* Variant of optin_feature_of below that does not strip the "#" prefix.
optin_feature_of_no_lstrip(issue, workflow_requestors, feature, fallback) ==
    IF issue.comments = <<>> THEN Raised
    ELSE LET first_comment == Strip(issue.comments[1], {"\n", "\t", " "})
             userlist == {Strip(u, {"\n", "\t", "@", " "}) :
                            u \in Range(SplitWhitespace(first_comment))}
             all_opted_in_users ==
                 {Split(user, ",")[1] :
                    user \in {u \in userlist : feature \in Range(Split(u, ","))}}
             opted_in_requestors ==
                 {usr \in Range(workflow_requestors) : usr \in all_opted_in_users}
         IN  IF opted_in_requestors # {} THEN Returned(feature) ELSE Returned(fallback)

\* The try block of get_optin_feature.
optin_feature_of(issue, workflow_requestors, feature, fallback) ==
    IF issue.comments = <<>> THEN Raised
    ELSE LET first_comment == Strip(issue.comments[1], {"\n", "\t", " "})
             userlist == {Strip(LStrip(u, {"#"}), {"\n", "\t", "@", " "}) :
                            u \in Range(SplitWhitespace(first_comment))}
             all_opted_in_users ==
                 {Split(user, ",")[1] :
                    user \in {u \in userlist : feature \in Range(Split(u, ","))}}
             opted_in_requestors ==
                 {usr \in Range(workflow_requestors) : usr \in all_opted_in_users}
         IN  IF opted_in_requestors # {} THEN Returned(feature) ELSE Returned(fallback)

\* except Exception: use the fallback.
get_optin_feature(issue, workflow_requestors, feature, fallback) ==
    IF optin_feature_of(issue, workflow_requestors, feature, fallback).raised
    THEN fallback
    ELSE optin_feature_of(issue, workflow_requestors, feature, fallback).value

\* The user lists the model reads: each line is "*", "!" or an entry, which is a
\* prefix ("@", or "#@" for a user opted out of the new runners), a user name and
\* the features the user opts in to, separated by commas.
Users == {"User1", "User2"}
Features == {"amz2023", "other"}
Prefixes == {<<"@">>, <<"#", "@">>}
FeatureLists == {<<>>, <<"amz2023">>, <<"other", "amz2023">>}

RECURSIVE Commas(_)
Commas(features) ==
    IF features = <<>> THEN <<>> ELSE <<",", Head(features)>> \o Commas(Tail(features))
Entry(prefix, user, features) == prefix \o <<user>> \o Commas(features)

LineSet ==
    {<<"*">>, <<"!">>}
    \cup {Entry(p, u, fs) : p \in Prefixes, u \in Users, fs \in FeatureLists}

\* The comment's body: the lines, each ended by a newline.
RECURSIVE Body(_)
Body(lines) == IF lines = <<>> THEN <<>> ELSE Head(lines) \o <<"\n">> \o Body(Tail(lines))

\* ------------------------------------------------------------ the state

VARIABLES
    c,           \* the container under test, an immutable_list or an immutable_dict
    res,         \* the last operation: its name, arguments, return value, exception
    issue,       \* the issue: the lines of its user list and its comments' bodies
    requestors,  \* (issue owner, user name), as main passes them
    pc,          \* main's position
    label_type,  \* main's label_type
    feature,     \* the feature asked for
    runner_ami   \* main's runner_ami

collectionVars == <<c, res>>
runnerVars == <<issue, requestors, pc, label_type, feature, runner_ami>>
vars == <<c, res, issue, requestors, pc, label_type, feature, runner_ami>>

Result(op, args, ret, exc) == [op |-> op, args |-> args, ret |-> ret, exc |-> exc]
\* No call is in progress and no result is held.
Idle == Result("idle", <<>>, None, NoExc)
IsIdle == res.op = "idle"

Idx == 0..(MaxLen - 1)
ListArgs == SeqsUpTo(Vals, MaxArgLen)
DictArgs == SeqsUpTo(Items, MaxArgLen)

\* The calls made on a list: every mutating method of the base, the initializer
\* and some readers.
ListCalls ==
    [append |-> {<<x>> : x \in Vals},
     clear |-> {<<>>},
     extend |-> {<<xs>> : xs \in ListArgs},
     insert |-> Idx \X Vals,
     pop |-> {<<>>},
     remove |-> {<<x>> : x \in Vals},
     reverse |-> {<<>>},
     sort |-> {<<>>},
     __delitem__ |-> {<<i>> : i \in Idx},
     __setitem__ |-> Idx \X Vals,
     __iadd__ |-> {<<xs>> : xs \in ListArgs},
     __imul__ |-> {<<n>> : n \in 0..MaxArgLen},
     __init__ |-> {<<>>} \cup {<<xs>> : xs \in ListArgs},
     __len__ |-> {<<>>},
     __getitem__ |-> {<<i>> : i \in Idx},
     __contains__ |-> {<<x>> : x \in Vals},
     __hash__ |-> {<<>>},
     __reduce__ |-> {<<>>}]

DictCalls ==
    [__delitem__ |-> {<<k>> : k \in Keys},
     __ior__ |-> {<<m>> : m \in DictArgs},
     __setitem__ |-> Keys \X Vals,
     clear |-> {<<>>},
     pop |-> {<<k>> : k \in Keys},
     popitem |-> {<<>>},
     setdefault |-> Keys \X Vals,
     update |-> {<<m>> : m \in DictArgs},
     __init__ |-> {<<>>} \cup {<<m>> : m \in DictArgs},
     __len__ |-> {<<>>},
     __getitem__ |-> {<<k>> : k \in Keys},
     __contains__ |-> {<<k>> : k \in Keys},
     __hash__ |-> {<<>>},
     __reduce__ |-> {<<>>}]

CallsOf(cls) == IF IsListKind(cls) THEN ListCalls ELSE DictCalls
InputsOf(cls) == IF IsListKind(cls) THEN SeqsUpTo(Vals, MaxLen) ELSE SeqsUpTo(Items, MaxLen)

\* c is constructed from a list, or from a sequence of key/value pairs.
Init ==
    /\ \E cls \in {immutable_list.name, immutable_dict.name} :
         \E x \in InputsOf(cls) : c = Construct(cls, <<x>>).ret
    /\ res = Idle
    /\ issue = [lines |-> <<>>, comments |-> <<>>]
    /\ requestors = <<>>
    /\ pc = "off"
    /\ label_type = <<>>
    /\ feature = <<>>
    /\ runner_ami = <<>>

\* c.method(*args)
Call ==
    /\ IsIdle
    /\ \E method \in DOMAIN CallsOf(c.cls) :
         \E args \in CallsOf(c.cls)[method] :
           LET out == Invoke(c, method, args)
           IN  /\ c' = out.self
               /\ res' = Result(method, args, out.ret, out.exc)
    /\ UNCHANGED runnerVars

\* A second instance of c's type is constructed.
NewInstance ==
    /\ IsIdle
    /\ \E x \in InputsOf(c.cls) :
         LET out == Construct(c.cls, <<x>>)
         IN  res' = Result("new", <<>>, out.ret, out.exc)
    /\ UNCHANGED <<c, runnerVars>>

ReturnsInstance(r) == r.op \in {"new", "unflatten", "reconstruct"} /\ r.exc = NoExc

\* c == other, hash(c) and hash(other), other being the instance last returned.
Compare ==
    /\ ReturnsInstance(res)
    /\ LET other == res.ret
           eq == Invoke(c, "__eq__", <<other>>)
           h1 == Invoke(c, "__hash__", <<>>)
           h2 == Invoke(other, "__hash__", <<>>)
       IN  res' = Result("compare", <<other>>,
                         [eq |-> eq.ret, hash_self |-> h1.ret, hash_other |-> h2.ret],
                         IF h1.exc # NoExc THEN h1.exc ELSE h2.exc)
    /\ UNCHANGED <<c, runnerVars>>

\* The traversal engine flattens one level of c with the registered function.
Flatten ==
    /\ IsIdle
    /\ res' = Result("flatten", <<>>,
                     CallFlatten(SUPPORTED_NODES[c.cls].flatten_fn, c), NoExc)
    /\ UNCHANGED <<c, runnerVars>>

FlattenWithKeys ==
    /\ IsIdle
    /\ res' = Result("flatten_with_keys", <<>>,
                     CallFlatten(SUPPORTED_NODES[c.cls].flatten_with_keys_fn, c), NoExc)
    /\ UNCHANGED <<c, runnerVars>>

\* The engine rebuilds from the context of the last flatten and children of the
\* same length: the ones flattened, or new ones.
Unflatten ==
    /\ res.op = "flatten"
    /\ \E values \in [1..Len(res.ret[1]) -> Vals] :
         res' = Result("unflatten", <<values, res.ret[2]>>,
                       CallUnflatten(SUPPORTED_NODES[c.cls].unflatten_fn, values, res.ret[2]),
                       NoExc)
    /\ UNCHANGED <<c, runnerVars>>

\* copy and pickle apply the constructor a reduction names to its arguments.
Reconstruct ==
    /\ res.op = "__reduce__"
    /\ res.exc = NoExc
    /\ LET out == Construct(res.ret[1], res.ret[2])
       IN  res' = Result("reconstruct", res.ret, out.ret, out.exc)
    /\ UNCHANGED <<c, runnerVars>>

\* The caller drops the result it holds; the next call starts from there.
Drop ==
    /\ ~IsIdle
    /\ res' = Idle
    /\ UNCHANGED <<c, runnerVars>>

Next ==
    \/ Call
    \/ NewInstance
    \/ Compare
    \/ Flatten
    \/ FlattenWithKeys
    \/ Unflatten
    \/ Reconstruct
    \/ Drop

Spec == Init /\ [][Next]_vars

\* ------------------------------------------- the runner determinator's runs

InitRunner ==
    /\ c = [cls |-> immutable_list.name, data |-> <<>>]
    /\ res = Idle
    /\ \E lines \in SeqsUpTo(LineSet, MaxLines) :
         \/ issue = [lines |-> lines, comments |-> <<Body(lines)>>]
         \/ lines = <<>> /\ issue = [lines |-> lines, comments |-> <<>>]
    /\ requestors \in {<<owner, username>> : owner \in Users, username \in Users}
    /\ pc = "get_workflow_type"
    /\ label_type = <<>>
    /\ feature = <<>>
    /\ runner_ami = <<>>

GetWorkflowType ==
    /\ pc = "get_workflow_type"
    /\ label_type' = get_workflow_type(issue, <<<<requestors[1]>>, <<requestors[2]>>>>)
    /\ pc' = "get_optin_feature"
    /\ UNCHANGED <<collectionVars, issue, requestors, feature, runner_ami>>

GetOptinFeature ==
    /\ pc = "get_optin_feature"
    /\ \E f \in Features :
         /\ feature' = <<f>>
         /\ runner_ami' = get_optin_feature(issue, <<<<requestors[1]>>, <<requestors[2]>>>>,
                                            <<f>>, RUNNER_AMI_LEGACY)
    /\ pc' = "done"
    /\ UNCHANGED <<collectionVars, issue, requestors, label_type>>

NextRunner ==
    \/ GetWorkflowType
    \/ GetOptinFeature

SpecRunner == InitRunner /\ [][NextRunner]_vars

\* ------------------------------------------------------------- properties

Eq(a, b) == Invoke(a, "__eq__", <<b>>).ret
GetItem(d, k) == Invoke(d, "__getitem__", <<k>>).ret
Denied == "NotImplementedError"
FlattenOf(x) == CallFlatten(SUPPORTED_NODES[x.cls].flatten_fn, x)

ListBlocked ==
    {"__delitem__", "__iadd__", "__imul__", "__setitem__", "append", "clear", "extend",
     "insert", "pop", "remove", "reverse", "sort"}
DictBlocked ==
    {"__delitem__", "__ior__", "__setitem__", "clear", "pop", "popitem", "setdefault",
     "update"}
BlockedOf(cls) == IF cls = "immutable_list" THEN ListBlocked ELSE DictBlocked

\* C1: a call of a blocked operation, whatever its arguments, raises the
\* mutation error and leaves the container as it was.
C1_BlockedRaisesAndKeeps ==
    [][(IsIdle /\ res'.op \in BlockedOf(c.cls))
         => (res'.exc.type = Denied /\ c' = c)]_vars

C1_Witness ==
    /\ c.cls = "immutable_dict"
    /\ Len(c.data) = 2
    /\ res.op = "update"
    /\ res.args[1] # <<>>
    /\ res.exc.type = Denied

\* C2: unflatten, given the children and the context flatten returned, yields a
\* container equal to the one flattened.
C2_RoundTrip ==
    (res.op = "unflatten" /\ res.args[1] = FlattenOf(c)[1] /\ res.args[2] = FlattenOf(c)[2])
        => Eq(res.ret, c)

C2_Witness ==
    /\ c.cls = "immutable_dict"
    /\ Len(c.data) = 2
    /\ c.data[1][1] > c.data[2][1]
    /\ res.op = "unflatten"
    /\ res.args[1] = FlattenOf(c)[1]
    /\ Eq(res.ret, c)

\* C3: two instances of one immutable type that are equal have equal hashes.
C3_EqualImpliesEqualHash ==
    (res.op = "compare" /\ res.exc = NoExc /\ res.ret.eq)
        => res.ret.hash_self = res.ret.hash_other

\* C4: no operation changes the contents of a container once it is constructed.
C4_ContentsNeverChange == [][c'.data = c.data]_vars

\* C5: the children of flatten_with_keys, without their keypath tokens, are the
\* children of flatten in the same order, and the contexts are the same.
C5_WithKeysMatchesFlatten ==
    res.op = "flatten_with_keys"
        => /\ Len(res.ret[1]) = Len(FlattenOf(c)[1])
           /\ \A i \in 1..Len(res.ret[1]) : res.ret[1][i][2] = FlattenOf(c)[1][i]
           /\ res.ret[2] = FlattenOf(c)[2]

C5_Witness ==
    /\ c.cls = "immutable_dict"
    /\ Len(c.data) = 2
    /\ c.data[1][1] > c.data[2][1]
    /\ c.data[1][2] # c.data[2][2]
    /\ res.op = "flatten_with_keys"
    /\ Len(res.ret[1]) = 2

\* C6: for the mapping type, flatten's children are the values stored under
\* the keys of its context, in matching order; unflatten of values v and that
\* context is an immutable_dict that maps context[i] to v[i] and has no other key.
C6_DictFlattenUnflatten ==
    /\ (res.op = "flatten" /\ c.cls = "immutable_dict")
         => /\ Len(res.ret[1]) = Len(res.ret[2])
            /\ Len(res.ret[2]) = Invoke(c, "__len__", <<>>).ret
            /\ \A i \in 1..Len(res.ret[2]) : GetItem(c, res.ret[2][i]) = res.ret[1][i]
    /\ (res.op = "unflatten" /\ c.cls = "immutable_dict")
         => /\ res.ret.cls = "immutable_dict"
            /\ Invoke(res.ret, "__len__", <<>>).ret = Len(res.args[2])
            /\ \A i \in 1..Len(res.args[2]) :
                 GetItem(res.ret, res.args[2][i]) = res.args[1][i]

C6_Witness ==
    /\ c.cls = "immutable_dict"
    /\ Len(c.data) = 2
    /\ res.op = "unflatten"
    /\ res.args[1] # FlattenOf(c)[1]
    /\ res.args[1][1] # res.args[1][2]
    /\ res.ret.cls = "immutable_dict"

\* C7: the reduction is (type of c, (tuple of c's contents,)), and the
\* constructor applied to that argument gives, with no error raised, an instance
\* of c's type equal to c.
C7_ReduceReconstructs ==
    /\ res.op = "__reduce__"
         => /\ res.exc = NoExc
            /\ res.ret = <<c.cls, <<c.data>>>>
    /\ res.op = "reconstruct"
         => /\ res.exc = NoExc
            /\ res.ret.cls = c.cls
            /\ Eq(res.ret, c)

C7_Witness ==
    /\ res.op = "reconstruct"
    /\ Len(c.data) = 2
    /\ res.exc = NoExc
    /\ res.ret.cls = c.cls

\* C8 as stated: the message of the mutation error names the container's type
\* and the operation that was called, and gives the remedy.
C8_MessageNamesTypeAndOperation ==
    res.exc.type = Denied
        => /\ c.cls \in Range(res.exc.msg)
           /\ res.op \in Range(res.exc.msg)
           /\ Range(_help_mutation) \subseteq Range(res.exc.msg)

\* C8 as amended: the message names the container's type and gives the remedy;
\* it does not name the operation that was called.
C8_MessageNamesTypeOnly ==
    res.exc.type = Denied
        => /\ c.cls \in Range(res.exc.msg)
           /\ res.op \notin Range(res.exc.msg)
           /\ Range(_help_mutation) \subseteq Range(res.exc.msg)

C8_Witness ==
    /\ c.cls = "immutable_list"
    /\ res.op = "append"
    /\ res.exc.type = Denied

\* The user list does not open with "!" or "*".
PerUser == issue.lines # <<>> /\ issue.lines[1] \notin {<<"!">>, <<"*">>}
\* The user has an entry with the given prefix that lists the feature.
Lists(prefix, user, f) ==
    \E fs \in FeatureLists : f \in Range(fs) /\ Entry(prefix, user, fs) \in Range(issue.lines)
\* The user has an entry without the "#" prefix.
OptedIn(user) == \E fs \in FeatureLists : Entry(<<"@">>, user, fs) \in Range(issue.lines)

\* C9: when the list does not open with "!" or "*", a requestor has a "#"
\* entry that lists the feature and no requestor has an un-prefixed entry,
\* get_workflow_type gives the meta label and get_optin_feature the feature.
C9_HashOptsOutOfRunnersIntoFeatures ==
    (/\ pc = "done"
     /\ PerUser
     /\ \E u \in Range(requestors) : Lists(<<"#", "@">>, u, feature[1])
     /\ \A u \in Range(requestors) : ~OptedIn(u))
        => (label_type = WORKFLOW_LABEL_META /\ runner_ami = feature)

C9_Witness ==
    /\ pc = "done"
    /\ PerUser
    /\ requestors[1] = requestors[2]
    /\ Lists(<<"#", "@">>, requestors[1], feature[1])
    /\ ~OptedIn(requestors[1])
    /\ \E u \in Users : OptedIn(u)
    /\ label_type = WORKFLOW_LABEL_META
    /\ runner_ami = feature

\* C10: a list whose first line is "*" gives the LF label, one whose first line
\* is "!" the meta label, whatever the requestors and the rest of the list.
C10_FirstLineDecides ==
    (pc # "get_workflow_type" /\ issue.comments # <<>> /\ issue.lines # <<>>)
        => /\ issue.lines[1] = <<"*">> => label_type = WORKFLOW_LABEL_LF
           /\ issue.lines[1] = <<"!">> => label_type = WORKFLOW_LABEL_META

C10_Witness ==
    /\ pc = "get_optin_feature"
    /\ Len(issue.lines) = 2
    /\ issue.lines[1] = <<"*">>
    /\ ~OptedIn(requestors[1])
    /\ ~OptedIn(requestors[2])
    /\ label_type = WORKFLOW_LABEL_LF
====
